---- MODULE Spec2Model ----
(***************************************************************************)
(* qdcrop (src/src/main.rs): corner search on the thresholded image, the   *)
(* output size policy, the crop pipeline of one job, and the batch driver  *)
(* in main.                                                                *)
(*                                                                         *)
(* Option<T> is a sequence of length at most one: <<>> is None, <<v>> is   *)
(* Some(v).  f64 values of the size policy are exact rationals <<n, d>>    *)
(* with d >= 0 (<<1, 0>> is +inf, the result of dividing by 0.0).          *)
(***************************************************************************)
EXTENDS Integers, Sequences, FiniteSets, TLC

\* Largest mask width and height the search is run on.
MaxW == 5
MaxH == 4
\* Largest number of dark pixels in a mask of that size.
MaxDark == 2
\* Largest width and height of the masks taken with every set of dark pixels.
MaxDenseW == 3
MaxDenseH == 2

VARIABLES
    threshold,  \* the mask: [width, height, dark], dark the set of black pixels
    flip_x,     \* find_nearest_to_corner: search starts from the right
    flip_y,     \* find_nearest_to_corner: search starts from the bottom
    i,          \* find_nearest_to_corner: the ring of the for loop
    nearest,    \* find_nearest_to_corner: Option<Nearest>
    spc,        \* find_nearest_to_corner: "loop", "returned" ("idle" outside it)
    found,      \* find_nearest_to_corner: the returned Option<(u32, u32)>
    pc,         \* crop: the statement about to run ("idle" outside crop)
    closest,    \* crop: the corner points located so far, clockwise from top left
    raw,        \* crop: <<width, height>> of lines 209-210, as integers
    size,       \* crop: <<width, height>> as f64 (rationals), lines 213 and 223
    dims,       \* crop: <<width, height>> as u32 after rounding, line 231
    projection, \* crop: Option of what from_control_points came back with
    result,     \* crop: "" while running, then "Ok", "Err: ..." or "panic: ..."
    args,       \* main: [input, output], the paths of the command line
    jobs,       \* main: the (input, output) pairs of line 270
    jst,        \* main: per job "pending", "create", "write", "skipped" or its result
    fs,         \* the output files: [path, by, complete], by the job that created it
    mainpc,     \* main: "start", "par_iter", "exited"
    failed,     \* main: Option of the count of line 326
    exit        \* Option of the exit status of the process

searchVars == <<flip_x, flip_y, i, nearest, spc, found>>
cropVars == <<pc, closest, raw, size, dims, projection, result>>
mainVars == <<args, jobs, jst, fs, mainpc, failed, exit>>
vars == <<threshold, searchVars, cropVars, mainVars>>

Min(a, b) == IF a < b THEN a ELSE b
Max(a, b) == IF a < b THEN b ELSE a

----------------------------------------------------------------------------
\* f64 as exact rationals <<n, d>>, n >= 0, d >= 0, in lowest terms

RECURSIVE GCD(_, _)
GCD(a, b) == IF b = 0 THEN a ELSE GCD(b, a % b)

Norm(r) == LET g == GCD(r[1], r[2]) IN IF g = 0 THEN r ELSE <<r[1] \div g, r[2] \div g>>
Rat(n) == <<n, 1>>
RLt(a, b) == a[1] * b[2] < b[1] * a[2]
RLe(a, b) == a[1] * b[2] <= b[1] * a[2]
RMul(a, b) == Norm(<<a[1] * b[1], a[2] * b[2]>>)
\* a / b; a positive value over 0.0 is +inf
RDiv(a, b) == Norm(<<a[1] * b[2], a[2] * b[1]>>)

----------------------------------------------------------------------------
\* Masks

Pixels(w, h) == (0 .. w - 1) \X (0 .. h - 1)

RECURSIVE SubsetsUpTo(_, _)
SubsetsUpTo(S, k) ==
    IF k = 0 THEN {{}}
    ELSE LET prev == SubsetsUpTo(S, k - 1)
         IN  prev \cup {s \cup {x} : s \in prev, x \in S}

\* Masks up to MaxW x MaxH with few dark pixels
SparseMasks ==
    UNION {{[width |-> w, height |-> h, dark |-> d] :
                d \in SubsetsUpTo(Pixels(w, h), MaxDark)} :
           w \in 1 .. MaxW, h \in 1 .. MaxH}

\* Every mask up to MaxDenseW x MaxDenseH
DenseMasks ==
    UNION {{[width |-> w, height |-> h, dark |-> d] : d \in SUBSET Pixels(w, h)} :
           w \in 1 .. MaxDenseW, h \in 1 .. MaxDenseH}

Masks == SparseMasks \cup DenseMasks

\* The masks crop is run on: the dense ones and the sparse ones of full size
CropMasks ==
    DenseMasks \cup {m \in SparseMasks : m.width = MaxW /\ m.height = MaxH}

----------------------------------------------------------------------------
\* find_nearest_to_corner

\* if flip { extent - 1 - c } else { c }, extent the width or the height
RealCoord(flip, extent, c) == IF flip THEN extent - 1 - c ELSE c

\* A faulty early exit: as soon as any pixel has been found
BreakEager(n, ring) == n # <<>>
\* The loop's early exit: Some(Nearest { square_distance, .. }) if *square_distance < i_squared
BreakNow(n, ring) == n # <<>> /\ n[1].square_distance < ring * ring

\* Faulty guards of the match below: c <= square_distance, c > square_distance
KeepFirst(n, cand) ==
    IF n # <<>> /\ n[1].square_distance <= cand.square_distance THEN n ELSE <<cand>>
KeepFarthest(n, cand) ==
    IF n # <<>> /\ n[1].square_distance > cand.square_distance THEN n ELSE <<cand>>
\* nearest = Some(match nearest { Some(v @ Nearest { square_distance: c, .. })
\*                                    if c < square_distance => v, _ => Nearest { .. } })
KeepNearest(n, cand) ==
    IF n # <<>> /\ n[1].square_distance < cand.square_distance THEN n ELSE <<cand>>

\* for x in 0..min(i + 1, width), from x on, in the row at offset ring
RECURSIVE RowScan(_, _, _, _, _, _)
RowScan(th, fx, fy, ring, x, n) ==
    IF x >= Min(ring + 1, th.width) THEN n
    ELSE LET real_x == RealCoord(fx, th.width, x)
             real_y == RealCoord(fy, th.height, ring)
             cand == [square_distance |-> x * x + ring * ring,
                      x |-> real_x, y |-> real_y]
         IN  RowScan(th, fx, fy, ring, x + 1,
                     IF <<real_x, real_y>> \in th.dark
                     THEN KeepNearest(n, cand) ELSE n)

\* for y in 0..min(i, height), from y on, in the column at offset ring
RECURSIVE ColumnScan(_, _, _, _, _, _)
ColumnScan(th, fx, fy, ring, y, n) ==
    IF y >= Min(ring, th.height) THEN n
    ELSE LET real_x == RealCoord(fx, th.width, ring)
             real_y == RealCoord(fy, th.height, y)
             cand == [square_distance |-> ring * ring + y * y,
                      x |-> real_x, y |-> real_y]
         IN  ColumnScan(th, fx, fy, ring, y + 1,
                        IF <<real_x, real_y>> \in th.dark
                        THEN KeepNearest(n, cand) ELSE n)

\* One iteration of the for loop after the break test: the row, then the column.
RingScan(th, fx, fy, ring, n) ==
    LET afterRow == IF ring < th.height
                    THEN RowScan(th, fx, fy, ring, 0, n) ELSE n
    IN  IF ring < th.width
        THEN ColumnScan(th, fx, fy, ring, 0, afterRow) ELSE afterRow

\* for i in 0..max(width, height), from ring on
RECURSIVE RingLoop(_, _, _, _, _)
RingLoop(th, fx, fy, ring, n) ==
    IF ring >= Max(th.width, th.height) THEN n
    ELSE IF BreakNow(n, ring) THEN n
    ELSE RingLoop(th, fx, fy, ring + 1, RingScan(th, fx, fy, ring, n))

\* nearest.map(|n| (n.x, n.y))
NearestPoint(n) == IF n = <<>> THEN <<>> ELSE << <<n[1].x, n[1].y>> >>

find_nearest_to_corner(th, fx, fy) == NearestPoint(RingLoop(th, fx, fy, 0, <<>>))

----------------------------------------------------------------------------
\* The search of one corner, ring by ring

InitSearch ==
    /\ threshold \in Masks
    /\ flip_x \in BOOLEAN
    /\ flip_y \in BOOLEAN
    /\ i = 0
    /\ nearest = <<>>
    /\ spc = "loop"
    /\ found = <<>>
    /\ pc = "idle"
    /\ closest = <<>>
    /\ raw = <<0, 0>>
    /\ size = <<Rat(0), Rat(0)>>
    /\ dims = <<0, 0>>
    /\ projection = <<>>
    /\ result = ""
    /\ args = [input |-> <<>>, output |-> <<>>]
    /\ jobs = <<>>
    /\ jst = <<>>
    /\ fs = {}
    /\ mainpc = "idle"
    /\ failed = <<>>
    /\ exit = <<>>

LoopBreak ==
    /\ spc = "loop"
    /\ i < Max(threshold.width, threshold.height)
    /\ BreakNow(nearest, i)
    /\ spc' = "returned"
    /\ found' = NearestPoint(nearest)
    /\ UNCHANGED <<threshold, flip_x, flip_y, i, nearest, cropVars, mainVars>>

LoopBody ==
    /\ spc = "loop"
    /\ i < Max(threshold.width, threshold.height)
    /\ ~BreakNow(nearest, i)
    /\ nearest' = RingScan(threshold, flip_x, flip_y, i, nearest)
    /\ i' = i + 1
    /\ UNCHANGED <<threshold, flip_x, flip_y, spc, found, cropVars, mainVars>>

LoopEnd ==
    /\ spc = "loop"
    /\ i >= Max(threshold.width, threshold.height)
    /\ spc' = "returned"
    /\ found' = NearestPoint(nearest)
    /\ UNCHANGED <<threshold, flip_x, flip_y, i, nearest, cropVars, mainVars>>

NextSearch == LoopBreak \/ LoopBody \/ LoopEnd

SpecSearch == InitSearch /\ [][NextSearch]_vars

----------------------------------------------------------------------------
\* Corner search: what is claimed of the returned point

\* Offsets of pixel p from the selected corner, in the mirrored frame.
Dx(th, fx, p) == IF fx THEN th.width - 1 - p[1] ELSE p[1]
Dy(th, fy, p) == IF fy THEN th.height - 1 - p[2] ELSE p[2]
SqDist(th, fx, fy, p) ==
    Dx(th, fx, p) * Dx(th, fx, p) + Dy(th, fy, p) * Dy(th, fy, p)

IsNearestDark(th, fx, fy, p) ==
    /\ p \in th.dark
    /\ \A q \in th.dark : SqDist(th, fx, fy, p) <= SqDist(th, fx, fy, q)

\* Position of a pixel in the scan: rings by radius, the row before the column.
ScanRing(th, fx, fy, p) == Max(Dx(th, fx, p), Dy(th, fy, p))
ScanSlot(th, fx, fy, p) ==
    IF Dy(th, fy, p) >= Dx(th, fx, p)
    THEN Dx(th, fx, p)
    ELSE ScanRing(th, fx, fy, p) + 1 + Dy(th, fy, p)
ScannedBefore(th, fx, fy, p, q) ==
    \/ ScanRing(th, fx, fy, p) < ScanRing(th, fx, fy, q)
    \/ /\ ScanRing(th, fx, fy, p) = ScanRing(th, fx, fy, q)
       /\ ScanSlot(th, fx, fy, p) < ScanSlot(th, fx, fy, q)

\* C1: the search returns none exactly when the mask has no dark pixel, and
\* otherwise a dark pixel whose squared distance to the selected corner is the
\* minimum over all dark pixels; with one dark pixel it returns that pixel.
C1_NearestDark ==
    spc = "returned" =>
        /\ (found = <<>>) <=> (threshold.dark = {})
        /\ found # <<>> => IsNearestDark(threshold, flip_x, flip_y, found[1])
        /\ \A p \in threshold.dark : threshold.dark = {p} => found = <<p>>

\* C1 witness: the returned pixel lies in a later ring than another dark pixel,
\* so the loop went on past its first hit and found a nearer pixel further out.
C1_Witness ==
    /\ spc = "returned"
    /\ found # <<>>
    /\ \E q \in threshold.dark :
          ScanRing(threshold, flip_x, flip_y, q)
              < ScanRing(threshold, flip_x, flip_y, found[1])

\* C9 as claimed: among the dark pixels at the minimal squared distance the
\* search returns the one scanned first.
C9_FirstOfTies ==
    (spc = "returned" /\ found # <<>>) =>
        \A q \in threshold.dark :
            (IsNearestDark(threshold, flip_x, flip_y, q) /\ q # found[1])
                => ScannedBefore(threshold, flip_x, flip_y, found[1], q)

\* C9 amended: among the dark pixels at the minimal squared distance the search
\* returns the one scanned last (an equal candidate replaces the retained one).
C9_LastOfTies ==
    (spc = "returned" /\ found # <<>>) =>
        \A q \in threshold.dark :
            (IsNearestDark(threshold, flip_x, flip_y, q) /\ q # found[1])
                => ScannedBefore(threshold, flip_x, flip_y, q, found[1])

\* C9 witness: two dark pixels tie at the minimal distance and one is returned.
C9_Witness ==
    /\ spc = "returned"
    /\ found # <<>>
    /\ \E q \in threshold.dark :
          q # found[1] /\ IsNearestDark(threshold, flip_x, flip_y, q)

----------------------------------------------------------------------------
\* crop: the size policy (lines 209-231)

\* Largest raw width and height the policy is run on, besides the strided ones.
MaxRaw == 20
\* Further raw values: RawStride, 2 * RawStride, ..., RawStrides * RawStride.
RawStride == 171
RawStrides == 12
\* Raw values on both sides of MAX_HEIGHT and MAX_WIDTH.
RawEdges == {1023, 1024, 1025, 1820, 1821}
RawValues ==
    (0 .. MaxRaw) \cup {k * RawStride : k \in 1 .. RawStrides} \cup RawEdges

\* a - b on u32: None when it overflows
USub(a, b) == IF a >= b THEN <<a - b>> ELSE <<>>

\* The four subtractions of lines 209-210, in source order.
RawSubs(c) ==
    <<USub(c[4][2], c[1][2]), USub(c[3][2], c[2][2]),
      USub(c[2][1], c[1][1]), USub(c[3][1], c[4][1])>>

\* <<width, height>> of lines 209-210, given that no subtraction overflowed
RawSize(c) ==
    LET d == RawSubs(c)
    IN  <<Max(d[3][1], d[4][1]), Max(d[1][1], d[2][1])>>

\* The aspect step with its two branches exchanged
AspectShrink(r) ==
    LET width == Rat(r[1])
        height == Rat(r[2])
        height_aspect == RDiv(RMul(Rat(9), width), Rat(16))
        width_aspect == RDiv(RMul(Rat(16), height), Rat(9))
    IN  IF RLt(height_aspect, height)
        THEN <<width, height_aspect>>
        ELSE <<width_aspect, height>>
\* Lines 211-217: r is <<width, height>> as integers
AspectSize(r) ==
    LET width == Rat(r[1])
        height == Rat(r[2])
        height_aspect == RDiv(RMul(Rat(9), width), Rat(16))
        width_aspect == RDiv(RMul(Rat(16), height), Rat(9))
    IN  IF RLt(height_aspect, height)
        THEN <<width_aspect, height>>
        ELSE <<width, height_aspect>>

MAX_HEIGHT == Rat(1024)
MAX_WIDTH == RDiv(RMul(Rat(1024), Rat(16)), Rat(9))

\* How two f64 values compare whose exact values are equal: each carries its own
\* rounding error (16.0 * height / 9.0 and 1024.0 * 16.0 / 9.0 are inexact), so
\* the comparison can come out either way.
FloatOrder == {"lt", "eq", "gt"}
FCmp(a, b, fp) == IF RLt(a, b) THEN "lt" ELSE IF RLt(b, a) THEN "gt" ELSE fp

\* The clamp step left out
ClampNone(s, fp) == s
\* Lines 221-229: s is <<width, height>> as f64
ClampSize(s, fp) ==
    LET width == s[1]
        height == s[2]
        height_ratio == RDiv(MAX_HEIGHT, height)
        width_ratio == RDiv(MAX_WIDTH, width)
        cmp == FCmp(height_ratio, width_ratio, fp)
    IN  IF cmp \in {"lt", "eq"} /\ RLt(height_ratio, Rat(1))
        THEN <<RMul(width, height_ratio), MAX_HEIGHT>>
        ELSE IF cmp \in {"gt", "eq"} /\ RLt(width_ratio, Rat(1))
        THEN <<MAX_WIDTH, RMul(height, width_ratio)>>
        ELSE s

\* f64::round (half away from zero) followed by as u32, for a finite v >= 0
RoundU32(v) == (2 * v[1] + v[2]) \div (2 * v[2])

\* Line 231
RoundSize(s) == <<RoundU32(s[1]), RoundU32(s[2])>>

----------------------------------------------------------------------------
\* from_control_points (lines 29-97)

Collinear(p, q, r) ==
    (q[1] - p[1]) * (r[2] - p[2]) = (q[2] - p[2]) * (r[1] - p[1])

\* Three of the four points form a line (coinciding points included).
ThreeCollinear(from) ==
    \E a, b, c \in 1 .. 4 :
        a < b /\ b < c /\ Collinear(from[a], from[b], from[c])

\* Whether the 3x3 matrix built from the solution x is invertible, which is what
\* Projection::from_matrix tests.  With to = (0, 0) the right-hand side b is all
\* zeros, so x = V * S^+ * U^T * b is the zero vector and the matrix
\* [0 0 0; 0 0 0; 0 0 1] is singular.  With three points on a line the system is
\* rank deficient and the truncated least-squares solution may come out either way.
SolvedInvertible(from, to) ==
    IF to = <<0, 0>> THEN {FALSE}
    ELSE IF ThreeCollinear(from) \/ to[1] = 0 \/ to[2] = 0 THEN BOOLEAN
    ELSE {TRUE}

\* diverged: try_svd did not reach its tolerance within 1048576 iterations and is
\* None (line 78).  solve(&b, 0.125) fails only on a negative epsilon or a missing
\* U or V, neither of which can happen here (lines 78, 81).  invertible:
\* from_matrix is Some.
from_control_points(from, to, diverged, invertible) ==
    IF diverged THEN "Err: SVD failed"
    ELSE IF ~invertible THEN "panic: unwrap on None"
    ELSE "Ok"

\* What a call can come back with
SolveOutcomes(from, to) ==
    {from_control_points(from, to, diverged, invertible) :
        diverged \in BOOLEAN, invertible \in SolvedInvertible(from, to)}

----------------------------------------------------------------------------
\* crop (lines 196-252), one statement at a time

InitCrop ==
    /\ threshold \in CropMasks
    /\ flip_x = FALSE
    /\ flip_y = FALSE
    /\ i = 0
    /\ nearest = <<>>
    /\ spc = "idle"
    /\ found = <<>>
    /\ pc = "open"
    /\ closest = <<>>
    /\ raw = <<0, 0>>
    /\ size = <<Rat(0), Rat(0)>>
    /\ dims = <<0, 0>>
    /\ projection = <<>>
    /\ result = ""
    /\ args = [input |-> <<>>, output |-> <<>>]
    /\ jobs = <<>>
    /\ jst = <<>>
    /\ fs = {}
    /\ mainpc = "idle"
    /\ failed = <<>>
    /\ exit = <<>>

Fail(msg) == pc' = "done" /\ result' = msg

\* Line 197 to line 201: image::open(input).context("Could not open input")?
Open ==
    /\ pc = "open"
    /\ \E opened \in BOOLEAN :
          IF opened
          THEN pc' = "locate" /\ UNCHANGED result
          ELSE Fail("Err: Could not open input")
    /\ UNCHANGED <<threshold, searchVars, mainVars, closest, raw, size, dims, projection>>

\* The selectors of lines 203-206: top left, top right, bottom right, bottom left
FlipX(k) == k \in {2, 3}
FlipY(k) == k \in {3, 4}

\* The four searches in the order of the array literal (for a non-empty mask)
Closest(th) == [k \in 1 .. 4 |-> find_nearest_to_corner(th, FlipX(k), FlipY(k))[1]]

\* Lines 202-207, one element of the array literal at a time
Locate ==
    /\ pc = "locate"
    /\ LET k == Len(closest) + 1
           p == find_nearest_to_corner(threshold, FlipX(k), FlipY(k))
       IN  IF p = <<>>
           THEN /\ Fail(IF k = 1 THEN "Err: No interesting points"
                                 ELSE "panic: unwrap on None")
                /\ UNCHANGED closest
           ELSE /\ closest' = Append(closest, p[1])
                /\ pc' = IF k = 4 THEN "rawsize" ELSE "locate"
                /\ UNCHANGED result
    /\ UNCHANGED <<threshold, searchVars, mainVars, raw, size, dims, projection>>

\* Lines 209-210.  An overflowing u32 subtraction panics in a build with overflow
\* checks and wraps without them; the wrapped value is not followed further.
RawSizeStep ==
    /\ pc = "rawsize"
    /\ IF \E k \in 1 .. 4 : RawSubs(closest)[k] = <<>>
       THEN /\ \E msg \in {"panic: attempt to subtract with overflow", "wrapped"} :
                  Fail(msg)
            /\ UNCHANGED raw
       ELSE /\ raw' = RawSize(closest)
            /\ pc' = "aspect"
            /\ UNCHANGED result
    /\ UNCHANGED <<threshold, searchVars, mainVars, closest, size, dims, projection>>

\* Lines 211-217
Aspect ==
    /\ pc = "aspect"
    /\ size' = AspectSize(raw)
    /\ pc' = "clamp"
    /\ UNCHANGED <<threshold, searchVars, mainVars, closest, raw, dims, projection, result>>

\* Lines 219-229
Clamp ==
    /\ pc = "clamp"
    /\ \E fp \in FloatOrder : size' = ClampSize(size, fp)
    /\ pc' = "round"
    /\ UNCHANGED <<threshold, searchVars, mainVars, closest, raw, dims, projection, result>>

\* Line 231
Round ==
    /\ pc = "round"
    /\ dims' = RoundSize(size)
    /\ pc' = "solve"
    /\ UNCHANGED <<threshold, searchVars, mainVars, closest, raw, size, projection, result>>

\* Lines 233-234
Solve ==
    /\ pc = "solve"
    /\ \E diverged \in BOOLEAN, invertible \in SolvedInvertible(closest, dims) :
          LET r == from_control_points(closest, dims, diverged, invertible)
          IN  /\ projection' = <<r>>
              /\ IF r = "Ok" THEN pc' = "warp" /\ UNCHANGED result ELSE Fail(r)
    /\ UNCHANGED <<threshold, searchVars, mainVars, closest, raw, size, dims>>

\* Lines 235-242: ImageBuffer::new and warp_into
Warp ==
    /\ pc = "warp"
    /\ pc' = "encode"
    /\ UNCHANGED <<threshold, searchVars, mainVars, closest, raw, size, dims, projection, result>>

\* Lines 244-246
Encode ==
    /\ pc = "encode"
    /\ pc' = "create"
    /\ UNCHANGED <<threshold, searchVars, mainVars, closest, raw, size, dims, projection, result>>

\* Line 247: File::create(output).context("Could not create output")?
Create ==
    /\ pc = "create"
    /\ \E created \in BOOLEAN :
          IF created
          THEN pc' = "write" /\ UNCHANGED result
          ELSE Fail("Err: Could not create output")
    /\ UNCHANGED <<threshold, searchVars, mainVars, closest, raw, size, dims, projection>>

\* Lines 248-251: write_all and flush, then Ok(())
Write ==
    /\ pc = "write"
    /\ \E written \in BOOLEAN :
          Fail(IF written THEN "Ok" ELSE "Err: Could not write output")
    /\ UNCHANGED <<threshold, searchVars, mainVars, closest, raw, size, dims, projection>>

NextCrop ==
    \/ Open \/ Locate \/ RawSizeStep \/ Aspect \/ Clamp \/ Round
    \/ Solve \/ Warp \/ Encode \/ Create \/ Write

SpecCrop == InitCrop /\ [][NextCrop]_vars

----------------------------------------------------------------------------
\* The size policy alone, on raw sizes beyond those of the small masks

InitSize ==
    /\ threshold = [width |-> 1, height |-> 1, dark |-> {}]
    /\ flip_x = FALSE
    /\ flip_y = FALSE
    /\ i = 0
    /\ nearest = <<>>
    /\ spc = "idle"
    /\ found = <<>>
    /\ pc = "aspect"
    /\ closest = <<>>
    /\ raw \in RawValues \X RawValues
    /\ size = <<Rat(0), Rat(0)>>
    /\ dims = <<0, 0>>
    /\ projection = <<>>
    /\ result = ""
    /\ args = [input |-> <<>>, output |-> <<>>]
    /\ jobs = <<>>
    /\ jst = <<>>
    /\ fs = {}
    /\ mainpc = "idle"
    /\ failed = <<>>
    /\ exit = <<>>

NextSize == Aspect \/ Clamp \/ Round

SpecSize == InitSize /\ [][NextSize]_vars

----------------------------------------------------------------------------
\* Size policy and crop: what is claimed

REq(a, b) == a[1] * b[2] = b[1] * a[2]

\* C2: for a raw width >= 1 and a raw height >= 1 the rounded output size
\* satisfies 1 <= width <= 1024 * 16 / 9 and 1 <= height <= 1024.
C2_SizeWithinBounds ==
    (pc = "solve" /\ raw[1] >= 1 /\ raw[2] >= 1) =>
        /\ 1 <= dims[1] /\ RLe(Rat(dims[1]), MAX_WIDTH)
        /\ 1 <= dims[2] /\ RLe(Rat(dims[2]), MAX_HEIGHT)

\* C2 witness: a raw size beyond both maxima was scaled down and rounded.
C2_Witness ==
    /\ pc = "solve"
    /\ raw[1] > 1821 /\ raw[2] > 1024
    /\ dims = <<1820, 1024>>

\* C3 as claimed: the aspect step only shrinks, the adopted width and height are
\* at most the raw width and height.
C3_OnlyShrinks ==
    pc = "clamp" => RLe(size[1], Rat(raw[1])) /\ RLe(size[2], Rat(raw[2]))

\* C3 amended: the aspect step only grows, the adopted width and height are at
\* least the raw ones: (16 * height / 9, raw height) when 9 * width / 16 is less
\* than the raw height, and (raw width, 9 * width / 16) otherwise.
C3_OnlyGrows ==
    pc = "clamp" =>
        /\ RLe(Rat(raw[1]), size[1])
        /\ RLe(Rat(raw[2]), size[2])
        /\ IF 9 * raw[1] < 16 * raw[2]
           THEN REq(size[1], <<16 * raw[2], 9>>) /\ size[2] = Rat(raw[2])
           ELSE size[1] = Rat(raw[1]) /\ REq(size[2], <<9 * raw[1], 16>>)

\* C3 witness: the aspect step has run on a raw size that is not 16:9 and has
\* made the width strictly larger.
C3_Witness ==
    /\ pc = "clamp"
    /\ raw[1] >= 1 /\ raw[2] >= 1
    /\ RLt(Rat(raw[1]), size[1])

\* C6 as claimed: whenever three of the control points are on a line, the call
\* of from_control_points comes back with an error, never with a matrix and
\* never by a panic.
C6_CollinearIsError ==
    (projection # <<>> /\ ThreeCollinear(closest)) =>
        projection[1] \notin {"Ok", "panic: unwrap on None"}

\* C7 as claimed: with an output width or height of 0 after rounding, neither
\* the homography solve nor the allocation and the warp are reached.
C7_ZeroSizeRejected ==
    (projection # <<>> \/ pc \in {"warp", "encode", "create", "write"}) =>
        (dims[1] >= 1 /\ dims[2] >= 1)

\* C10: the four corner points satisfy BL.y >= TL.y, BR.y >= TR.y, TR.x >= TL.x
\* and BR.x >= BL.x, so no subtraction of lines 209-210 overflows.
C10_NoUnderflow ==
    /\ result \notin {"panic: attempt to subtract with overflow", "wrapped"}
    /\ Len(closest) = 4 =>
          /\ closest[4][2] >= closest[1][2]
          /\ closest[3][2] >= closest[2][2]
          /\ closest[2][1] >= closest[1][1]
          /\ closest[3][1] >= closest[4][1]

\* C10 witness: the subtractions have run on four different corner points.
C10_Witness ==
    /\ pc = "aspect"
    /\ Cardinality({closest[k] : k \in 1 .. 4}) = 4
    /\ raw[1] >= 1 /\ raw[2] >= 1

----------------------------------------------------------------------------
\* Paths: a path is a non-empty sequence of components [stem, ext], ext = "" for
\* a component without an extension

\* Largest number of inputs on the command line.
MaxInputs == 2

Comp(stem, ext) == [stem |-> stem, ext |-> ext]

InputPaths ==
    {<<Comp(d, ""), Comp(n, e)>> : d \in {"a", "b"}, n \in {"x", "y"}, e \in {"png", "jpg"}}
OutputPaths == {<<Comp("out", "")>>, <<Comp("out", ""), Comp("x", "webp")>>}

SeqsUpTo(S, lo, hi) == UNION {[1 .. n -> S] : n \in lo .. hi}

\* Path::file_name: the last component
file_name(path) == path[Len(path)]
\* Path::join with a file name
join(base, name) == Append(base, name)
\* PathBuf::set_extension: the extension of the last component is replaced
set_extension(path, ext) == [path EXCEPT ![Len(path)].ext = ext]
\* Path::new(".")
Dot == <<Comp(".", "")>>

----------------------------------------------------------------------------
\* main (lines 254-333)

\* lines 280-287: the input's file name in the base directory, extension webp
NamedOutput(base, input) == set_extension(join(base, file_name(input)), "webp")

\* Lines 270-309: None where main prints a message and exits with status 1
BuildJobs(input, output) ==
    IF Len(input) > 1
    THEN IF Len(output) > 1 /\ Len(output) # Len(input)
         THEN <<>>
         ELSE IF Len(output) < 2
         THEN LET base == IF output = <<>> THEN Dot ELSE output[1]
              IN  <<[k \in 1 .. Len(input) |->
                        [input |-> input[k], output |-> NamedOutput(base, input[k])]]>>
         ELSE <<[k \in 1 .. Len(input) |->
                    [input |-> input[k], output |-> output[k]]]>>
    ELSE IF Len(output) > 1
         THEN <<>>
         ELSE << <<[input |-> input[1],
                    output |-> IF output # <<>> THEN output[1]
                               ELSE set_extension(<<file_name(input[1])>>, "webp")]>> >>

\* The images behind the input paths, by their masks: nothing dark, one dark
\* pixel, a dark square
BatchImages ==
    {[width |-> 1, height |-> 1, dark |-> {}],
     [width |-> 1, height |-> 1, dark |-> {<<0, 0>>}],
     [width |-> 2, height |-> 2, dark |-> Pixels(2, 2)]}

\* crop from line 197 to line 246 on an image with mask th: every result it can
\* have there, "Ok" standing for having the encoded bytes
CropOutcomes(th) ==
    {"Err: Could not open input"} \cup
    (IF find_nearest_to_corner(th, FALSE, FALSE) = <<>>
     THEN {"Err: No interesting points"}
     ELSE LET c == Closest(th)
          IN  IF \E k \in 1 .. 4 : RawSubs(c)[k] = <<>>
              THEN {"panic: attempt to subtract with overflow", "wrapped"}
              ELSE UNION {SolveOutcomes(c, RoundSize(ClampSize(AspectSize(RawSize(c)), fp))) :
                             fp \in FloatOrder})

IsErr(st) == st \in {"Err: Could not open input", "Err: No interesting points",
                     "Err: SVD failed", "Err: Could not create output",
                     "Err: Could not write output"}
IsPanic(st) == st \in {"panic: unwrap on None", "panic: attempt to subtract with overflow"}
Finished(st) == st = "Ok" \/ st = "skipped" \/ IsErr(st) \/ IsPanic(st)

InitBatch ==
    /\ threshold = [width |-> 1, height |-> 1, dark |-> {}]
    /\ flip_x = FALSE
    /\ flip_y = FALSE
    /\ i = 0
    /\ nearest = <<>>
    /\ spc = "idle"
    /\ found = <<>>
    /\ pc = "idle"
    /\ closest = <<>>
    /\ raw = <<0, 0>>
    /\ size = <<Rat(0), Rat(0)>>
    /\ dims = <<0, 0>>
    /\ projection = <<>>
    /\ result = ""
    /\ args \in [input : SeqsUpTo(InputPaths, 1, MaxInputs),
                 output : SeqsUpTo(OutputPaths, 0, MaxInputs)]
    /\ jobs = <<>>
    /\ jst = <<>>
    /\ fs = {}
    /\ mainpc = "start"
    /\ failed = <<>>
    /\ exit = <<>>

\* Lines 268-309
ParseArgs ==
    /\ mainpc = "start"
    /\ LET built == BuildJobs(args.input, args.output)
       IN  IF built = <<>>
           THEN /\ mainpc' = "exited"
                /\ exit' = <<1>>
                /\ UNCHANGED <<jobs, jst>>
           ELSE /\ jobs' = built[1]
                /\ jst' = [k \in 1 .. Len(built[1]) |-> "pending"]
                /\ mainpc' = "par_iter"
                /\ UNCHANGED exit
    /\ UNCHANGED <<threshold, searchVars, cropVars, args, fs, failed>>

\* Job j runs crop up to the encoded image (lines 197-246) on whatever image its
\* input path holds.
JobRun(j) ==
    /\ mainpc = "par_iter"
    /\ jst[j] = "pending"
    /\ \E img \in BatchImages : \E r \in CropOutcomes(img) :
          jst' = [jst EXCEPT ![j] = IF r = "Ok" THEN "create" ELSE r]
    /\ UNCHANGED <<threshold, searchVars, cropVars, args, jobs, fs, mainpc, failed, exit>>

\* Line 247 in job j: File::create makes the file or truncates it.
JobCreate(j) ==
    /\ mainpc = "par_iter"
    /\ jst[j] = "create"
    /\ \E created \in BOOLEAN :
          IF created
          THEN /\ fs' = {f \in fs : f.path # jobs[j].output}
                          \cup {[path |-> jobs[j].output, by |-> j, complete |-> FALSE]}
               /\ jst' = [jst EXCEPT ![j] = "write"]
          ELSE /\ jst' = [jst EXCEPT ![j] = "Err: Could not create output"]
               /\ UNCHANGED fs
    /\ UNCHANGED <<threshold, searchVars, cropVars, args, jobs, mainpc, failed, exit>>

\* Lines 248-251 in job j
JobWrite(j) ==
    /\ mainpc = "par_iter"
    /\ jst[j] = "write"
    /\ \E written \in BOOLEAN :
          IF written
          THEN /\ fs' = {f \in fs : f.path # jobs[j].output}
                          \cup {[path |-> jobs[j].output, by |-> j, complete |-> TRUE]}
               /\ jst' = [jst EXCEPT ![j] = "Ok"]
          ELSE /\ jst' = [jst EXCEPT ![j] = "Err: Could not write output"]
               /\ UNCHANGED fs
    /\ UNCHANGED <<threshold, searchVars, cropVars, args, jobs, mainpc, failed, exit>>

\* A panic unwinds the sequential fold it happened in: a job of the same chunk
\* that has not started is never run.
JobSkip(j) ==
    /\ mainpc = "par_iter"
    /\ jst[j] = "pending"
    /\ \E k \in DOMAIN jst : IsPanic(jst[k])
    /\ jst' = [jst EXCEPT ![j] = "skipped"]
    /\ UNCHANGED <<threshold, searchVars, cropVars, args, jobs, fs, mainpc, failed, exit>>

\* Lines 311-332 once every job has come back.  A panic of a job is resumed in
\* main by the parallel iterator: the process ends with status 101 and neither
\* line 326 nor line 328 is reached.
Collect ==
    /\ mainpc = "par_iter"
    /\ \A j \in DOMAIN jst : Finished(jst[j])
    /\ IF \E j \in DOMAIN jst : IsPanic(jst[j])
       THEN /\ exit' = <<101>>
            /\ UNCHANGED failed
       ELSE LET n == Cardinality({j \in DOMAIN jst : jst[j] # "Ok"})
            IN  /\ failed' = <<n>>
                /\ exit' = IF n > 0 THEN <<1>> ELSE <<0>>
    /\ mainpc' = "exited"
    /\ UNCHANGED <<threshold, searchVars, cropVars, args, jobs, jst, fs>>

NextBatch ==
    \/ ParseArgs
    \/ \E j \in DOMAIN jst : JobRun(j)
    \/ \E j \in DOMAIN jst : JobCreate(j)
    \/ \E j \in DOMAIN jst : JobWrite(j)
    \/ \E j \in DOMAIN jst : JobSkip(j)
    \/ Collect

SpecBatch == InitBatch /\ [][NextBatch]_vars

----------------------------------------------------------------------------
\* main: what is claimed

JobFailed(j) == IsErr(jst[j]) \/ IsPanic(jst[j])
FailureCount == Cardinality({j \in DOMAIN jst : JobFailed(j)})

\* C4 as claimed: when the batch has ended with k failed jobs, every other job
\* has run to completion and written its output, the failure count is k, and the
\* exit status is non-zero exactly when k > 0.
C4_BatchSemantics ==
    (mainpc = "exited" /\ jobs # <<>>) =>
        /\ \A j \in DOMAIN jst : ~JobFailed(j) => jst[j] = "Ok"
        /\ failed = <<FailureCount>>
        /\ (exit # <<0>>) <=> (FailureCount > 0)

\* C8 as claimed: the jobs of a batch have pairwise different output paths, and
\* no two jobs are between File::create and the end of the write on one path.
C8_DistinctOutputs ==
    \A a, b \in DOMAIN jobs :
        a # b =>
            /\ jobs[a].output # jobs[b].output
            /\ ~(jst[a] = "write" /\ jst[b] = "write")

====
